---------------------------- MODULE Spec2Model ----------------------------
(***************************************************************************)
(* A model of winutils chmod (src/src/winutils/chmod.c): the mode parser,  *)
(* the mode computer, the fold of an action list over an object's current  *)
(* mode, the synthesis of the access-control list and the recursive walk.  *)
(*                                                                         *)
(* A USHORT is modelled by the set of the positions of its one bits (bit 0 *)
(* is the least significant): & is And, | is Or, ~ is Not, 0 is {}.  An    *)
(* ACCESS_MASK is the set of the access rights whose bits are set.         *)
(***************************************************************************)
EXTENDS Integers, Sequences, FiniteSets, TLC

VARIABLES
    pc,         \* the position of the program in the operation under study
    call,       \* the arguments of the ComputeNewMode call under study
    ret,        \* the mode it returns
    unixMask,   \* the argument of GetWindowsDACLs
    winMasks,   \* the five access masks GetWindowsAccessMask computes
    newDacl,    \* what GetWindowsDACLs returns: [ret, dacl]
    modeString, \* the MODE argument, a sequence of characters
    ps,         \* the locals of ParseMode: state, action, lastWho, i, the list
    unixAccessMask, \* Chmod's unixAccessMask, set by ParseOctalMode
    actions,    \* Chmod's actions, the list ParseMode builds (<<>> is NULL)
    argv,       \* the invocation: [opt, path], opt being "-R", another flag or none
    fs,         \* the file system: for every object its mode bits and its DACL
    recursive,  \* Chmod's recursive
    stack,      \* the active calls of ChangeFileModeRecursively, innermost last
    cfm,        \* the active call of ChangeFileMode: [path, mode, curr]
    result,     \* the value the last call returned
    applied,    \* the objects whose DACL the run has written, in order
    exitCode,   \* what Chmod returns
    trace,      \* the native calls of the run on the file system, in order
    held        \* for every kind of resource, how many the run holds

computeVars == <<call, ret>>
aclVars == <<unixMask, winMasks, newDacl>>
parseVars == <<modeString, ps, unixAccessMask, actions>>
runVars == <<argv, fs, recursive, stack, cfm, result, applied, exitCode, trace, held>>

vars == <<pc, call, ret, unixMask, winMasks, newDacl,
          modeString, ps, unixAccessMask, actions,
          argv, fs, recursive, stack, cfm, result, applied, exitCode, trace, held>>

-----------------------------------------------------------------------------
(* USHORT arithmetic *)

UShortBits == 16

\* the USHORT whose value is n
Bits(n) == {i \in 0..(UShortBits - 1) : (n \div (2^i)) % 2 = 1}

And(a, b) == a \cap b
Or(a, b) == a \cup b
Not(a) == (0..(UShortBits - 1)) \ a

-----------------------------------------------------------------------------
(* enum CHMOD_WHO, CHMOD_OP, CHMOD_PERM; the values are those of the       *)
(* source, octal there and decimal here.                                   *)

CHMOD_WHO_NONE  == Bits(0)
CHMOD_WHO_OTHER == Bits(7)
CHMOD_WHO_GROUP == Bits(56)
CHMOD_WHO_USER  == Bits(448)
CHMOD_WHO_ALL   == Or(Or(CHMOD_WHO_OTHER, CHMOD_WHO_GROUP), CHMOD_WHO_USER)

CHMOD_OP_INVALID == "invalid"
CHMOD_OP_PLUS    == "+"
CHMOD_OP_MINUS   == "-"
CHMOD_OP_EQUAL   == "="

CHMOD_PERM_NA == Bits(0)
CHMOD_PERM_R  == Bits(1)
CHMOD_PERM_W  == Bits(2)
CHMOD_PERM_X  == Bits(4)
CHMOD_PERM_LX == Bits(8)

\* enum UnixAclMask of winutils.h: the S_I* bits (octal 0400 ... 0001) and
\* S_IFDIR (octal 0040000)
UX_O_EXECUTE == Bits(1)
UX_O_WRITE   == Bits(2)
UX_O_READ    == Bits(4)
UX_G_EXECUTE == Bits(8)
UX_G_WRITE   == Bits(16)
UX_G_READ    == Bits(32)
UX_U_EXECUTE == Bits(64)
UX_U_WRITE   == Bits(128)
UX_U_READ    == Bits(256)
UX_DIRECTORY == Bits(16384)

\* static const USHORT readMask = 0444, writeMask = 0222, exeMask = 0111
readMask  == Bits(292)
writeMask == Bits(146)
exeMask   == Bits(73)

-----------------------------------------------------------------------------
(* ComputeNewMode, lines 588-653.  The two assert()s of lines 601-603 are   *)
(* obligations on the callers, stated by ComputeNewModeAsserts; the value  *)
(* is the one the function computes when they pass or are compiled out.    *)

ComputeNewModeAsserts(op, ref) ==
    /\ op \in {CHMOD_OP_EQUAL, CHMOD_OP_PLUS, CHMOD_OP_MINUS}
    /\ ref \in {CHMOD_WHO_GROUP, CHMOD_WHO_USER, CHMOD_WHO_OTHER}

\* lines 610-633: the mask of the perm letters
PermMask_NoDirectoryTest(oldMode, perm) ==
    IF perm # CHMOD_PERM_NA
    THEN LET r  == IF And(perm, CHMOD_PERM_R) = CHMOD_PERM_R THEN readMask ELSE {}
             w  == IF And(perm, CHMOD_PERM_W) = CHMOD_PERM_W THEN writeMask ELSE {}
             x  == IF And(perm, CHMOD_PERM_X) = CHMOD_PERM_X THEN exeMask ELSE {}
             lx == IF And(perm, CHMOD_PERM_LX) = CHMOD_PERM_LX
                      /\ And(oldMode, exeMask) # {}
                   THEN exeMask ELSE {}
         IN Or(Or(Or(r, w), x), lx)
    ELSE {}

PermMask(oldMode, perm) ==
    IF perm # CHMOD_PERM_NA
    THEN LET r  == IF And(perm, CHMOD_PERM_R) = CHMOD_PERM_R THEN readMask ELSE {}
             w  == IF And(perm, CHMOD_PERM_W) = CHMOD_PERM_W THEN writeMask ELSE {}
             x  == IF And(perm, CHMOD_PERM_X) = CHMOD_PERM_X THEN exeMask ELSE {}
             lx == IF And(perm, CHMOD_PERM_LX) = CHMOD_PERM_LX
                      /\ (And(oldMode, UX_DIRECTORY) = UX_DIRECTORY
                          \/ And(oldMode, exeMask) # {})
                   THEN exeMask ELSE {}
         IN Or(Or(Or(r, w), x), lx)
    ELSE {}

\* lines 639-652 with '-' keeping the bits of the mask instead of clearing them
ApplyOp_MinusKeepsMask(oldMode, op, mask) ==
    IF op = CHMOD_OP_EQUAL THEN mask
    ELSE IF op = CHMOD_OP_MINUS THEN And(oldMode, mask)
    ELSE IF op = CHMOD_OP_PLUS THEN Or(oldMode, mask)
    ELSE {}

\* an ApplyOp whose '+' flips the bits of the mask
ApplyOp_PlusToggles(oldMode, op, mask) ==
    IF op = CHMOD_OP_EQUAL THEN mask
    ELSE IF op = CHMOD_OP_MINUS THEN And(oldMode, Not(mask))
    ELSE IF op = CHMOD_OP_PLUS THEN Or(And(oldMode, Not(mask)), And(mask, Not(oldMode)))
    ELSE {}

\* lines 639-652: mode starts as 0 and is assigned under one of the three operators
ApplyOp(oldMode, op, mask) ==
    IF op = CHMOD_OP_EQUAL THEN mask
    ELSE IF op = CHMOD_OP_MINUS THEN And(oldMode, Not(mask))
    ELSE IF op = CHMOD_OP_PLUS THEN Or(oldMode, mask)
    ELSE {}

\* a ComputeNewMode that does not restrict the mask to the who bits
ComputeNewMode_MaskNotRestricted(oldMode, who, op, perm, ref) ==
    IF perm = CHMOD_PERM_NA /\ ref = CHMOD_WHO_NONE
    THEN oldMode
    ELSE ApplyOp(oldMode, op, Or(PermMask(oldMode, perm), And(oldMode, ref)))

ComputeNewMode(oldMode, who, op, perm, ref) ==
    IF perm = CHMOD_PERM_NA /\ ref = CHMOD_WHO_NONE
    THEN oldMode
    ELSE LET mask == And(Or(PermMask(oldMode, perm), And(oldMode, ref)), who)
         IN ApplyOp(oldMode, op, mask)

-----------------------------------------------------------------------------
(* The inputs of ComputeNewMode *)

\* every 9-bit mode, with and without the directory flag
ModeBits == SUBSET CHMOD_WHO_ALL
OldModes == ModeBits \cup {Or(m, UX_DIRECTORY) : m \in ModeBits}

\* the who sets ParseMode stores: a non-empty union of the three classes
WhoSets ==
    {Or(Or(u, g), o) : u \in {{}, CHMOD_WHO_USER}, g \in {{}, CHMOD_WHO_GROUP},
                       o \in {{}, CHMOD_WHO_OTHER}} \ {CHMOD_WHO_NONE}

Ops == {CHMOD_OP_PLUS, CHMOD_OP_MINUS, CHMOD_OP_EQUAL}

Perms == SUBSET Or(Or(Or(CHMOD_PERM_R, CHMOD_PERM_W), CHMOD_PERM_X), CHMOD_PERM_LX)

Refs == {CHMOD_WHO_NONE, CHMOD_WHO_USER, CHMOD_WHO_GROUP, CHMOD_WHO_OTHER}

NoCall == [oldMode |-> {}, who |-> CHMOD_WHO_NONE, op |-> CHMOD_OP_INVALID,
           perm |-> CHMOD_PERM_NA, ref |-> CHMOD_WHO_NONE]

IdleCompute == call = NoCall /\ ret = {}
IdleAcl == unixMask = {} /\ winMasks = <<>> /\ newDacl = <<>>
IdleParse == modeString = <<>> /\ ps = <<>> /\ unixAccessMask = {} /\ actions = <<>>
IdleRun ==
    /\ argv = <<>> /\ fs = <<>> /\ recursive = FALSE /\ stack = <<>> /\ cfm = <<>>
    /\ result = FALSE /\ applied = <<>> /\ exitCode = -1
    /\ trace = <<>> /\ held = <<>>

InitCompute ==
    /\ pc = "compute"
    /\ \E m \in OldModes : call = [NoCall EXCEPT !.oldMode = m]
    /\ ret = {}
    /\ IdleAcl
    /\ IdleParse
    /\ IdleRun

\* one call ComputeNewMode(oldMode, who, op, perm, ref) on the chosen object state
CallComputeNewMode ==
    /\ pc = "compute"
    /\ \E who \in WhoSets, op \in Ops, perm \in Perms, ref \in Refs :
          /\ call' = [call EXCEPT !.who = who, !.op = op, !.perm = perm, !.ref = ref]
          /\ ret' = ComputeNewMode(call.oldMode, who, op, perm, ref)
    /\ pc' = "computed"
    /\ UNCHANGED <<aclVars, parseVars, runVars>>

NextCompute == CallComputeNewMode

SpecCompute == InitCompute /\ [][NextCompute]_vars

-----------------------------------------------------------------------------
(* Claims about ComputeNewMode, checked under SpecCompute *)

ExecBits == {0, 3, 6}
DirFlag == {14}

\* the classes (0 other, 1 group, 2 owner) a who or ref selector names
ClassesOf(sel) == {c \in 0..2 : 3 * c \in sel}
\* the r/w/x bits (2, 1, 0) of class c in mode m
ClassBits(m, c) == {j \in 0..2 : (3 * c + j) \in m}

\* C1: under '=' the bits of the classes not named in who are the same in the
\* result as in the old mode (the claim as the specification states it).
C1_EqualKeepsOutsideWho ==
    (pc = "computed" /\ call.op = "=")
        => \A b \in 0..8 : b \notin call.who => (b \in ret <=> b \in call.oldMode)

\* C3: an action with a reference class gives every class of who the old
\* r/w/x bits of the referenced class: set under '=', added under '+',
\* removed under '-' (the claim as the specification states it).
C3_RefReplicated ==
    (pc = "computed" /\ call.ref # {} /\ call.perm = {})
        => \A c \in ClassesOf(call.who) : \A r \in ClassesOf(call.ref) :
              LET copied == ClassBits(call.oldMode, r)
                  had    == ClassBits(call.oldMode, c)
                  has    == ClassBits(ret, c)
              IN /\ call.op = "=" => has = copied
                 /\ call.op = "+" => has = had \cup copied
                 /\ call.op = "-" => has = had \ copied

\* C5: in one step the letter X (without x and without a reference class)
\* contributes no execute bit when the old state is a non-directory without
\* any execute bit, and otherwise the execute bits of exactly the who classes:
\* the contribution is the result's execute bits under '=', is added to the old
\* execute bits under '+' and removed from them under '-'.
C5_ConditionalExecute ==
    (pc = "computed" /\ 3 \in call.perm /\ 2 \notin call.perm /\ call.ref = {})
        => LET applies == DirFlag \subseteq call.oldMode \/ call.oldMode \cap ExecBits # {}
               contrib == IF applies THEN ExecBits \cap call.who ELSE {}
               before  == call.oldMode \cap ExecBits
               after   == ret \cap ExecBits
           IN /\ call.op = "=" => after = contrib
              /\ call.op = "+" => after = before \cup contrib
              /\ call.op = "-" => after = before \ contrib

\* C5 witness: g+X on a directory without execute bits sets the group's
\* execute bit and no other.
C5_Witness ==
    /\ pc = "computed"
    /\ call.perm = {3} /\ call.ref = {} /\ call.op = "+" /\ call.who = {3, 4, 5}
    /\ call.oldMode = DirFlag \cup {8, 7, 5, 2}
    /\ ret = DirFlag \cup {8, 7, 5, 3, 2}

-----------------------------------------------------------------------------
(* The access rights.  WinMasks is the table of libwinutils.c, indexed by  *)
(* the enum WindowsAclMask of winutils.h; FILE_GENERIC_READ is the winnt.h *)
(* constant.                                                               *)

WIN_READ     == "WIN_READ"
WIN_WRITE    == "WIN_WRITE"
WIN_EXECUTE  == "WIN_EXECUTE"
WIN_OWNER_SE == "WIN_OWNER_SE"
WIN_ALL      == "WIN_ALL"

WinMasks ==
    [i \in {WIN_READ, WIN_WRITE, WIN_EXECUTE, WIN_OWNER_SE, WIN_ALL} |->
        CASE i = WIN_READ     -> {"FILE_READ_DATA"}
          [] i = WIN_WRITE    -> {"FILE_WRITE_DATA", "FILE_WRITE_ATTRIBUTES",
                                  "FILE_APPEND_DATA", "FILE_WRITE_EA",
                                  "FILE_DELETE_CHILD"}
          [] i = WIN_EXECUTE  -> {"FILE_EXECUTE"}
          [] i = WIN_OWNER_SE -> {"DELETE", "WRITE_DAC", "WRITE_OWNER",
                                  "FILE_WRITE_EA", "FILE_WRITE_ATTRIBUTES"}
          [] i = WIN_ALL      -> {"READ_CONTROL", "FILE_READ_EA",
                                  "FILE_READ_ATTRIBUTES", "SYNCHRONIZE"}]

FILE_GENERIC_READ ==
    {"READ_CONTROL", "FILE_READ_DATA", "FILE_READ_ATTRIBUTES", "FILE_READ_EA",
     "SYNCHRONIZE"}

\* (unixMask & bit) == bit
Has(mask, bit) == And(mask, bit) = bit

-----------------------------------------------------------------------------
(* GetWindowsAccessMask, lines 1001-1070 *)

\* lines 1012-1020
UserAllow(mask) ==
    WinMasks[WIN_ALL] \cup WinMasks[WIN_OWNER_SE]
    \cup (IF Has(mask, UX_U_READ) THEN WinMasks[WIN_READ] ELSE {})
    \cup (IF Has(mask, UX_U_WRITE) THEN WinMasks[WIN_WRITE] ELSE {})
    \cup (IF Has(mask, UX_U_EXECUTE) THEN WinMasks[WIN_EXECUTE] ELSE {})

\* lines 1022-1036
UserDeny_GroupOnly(mask) ==
    (IF ~Has(mask, UX_U_READ) /\ Has(mask, UX_G_READ)
     THEN WinMasks[WIN_READ] ELSE {})
    \cup (IF ~Has(mask, UX_U_WRITE) /\ Has(mask, UX_G_WRITE)
          THEN WinMasks[WIN_WRITE] ELSE {})
    \cup (IF ~Has(mask, UX_U_EXECUTE) /\ Has(mask, UX_G_EXECUTE)
          THEN WinMasks[WIN_EXECUTE] ELSE {})

UserDeny(mask) ==
    (IF ~Has(mask, UX_U_READ) /\ (Has(mask, UX_G_READ) \/ Has(mask, UX_O_READ))
     THEN WinMasks[WIN_READ] ELSE {})
    \cup (IF ~Has(mask, UX_U_WRITE) /\ (Has(mask, UX_G_WRITE) \/ Has(mask, UX_O_WRITE))
          THEN WinMasks[WIN_WRITE] ELSE {})
    \cup (IF ~Has(mask, UX_U_EXECUTE)
             /\ (Has(mask, UX_G_EXECUTE) \/ Has(mask, UX_O_EXECUTE))
          THEN WinMasks[WIN_EXECUTE] ELSE {})

\* lines 1038-1046
GroupAllow_OtherRead(mask) ==
    WinMasks[WIN_ALL]
    \cup (IF Has(mask, UX_O_READ) THEN FILE_GENERIC_READ ELSE {})
    \cup (IF Has(mask, UX_G_WRITE) THEN WinMasks[WIN_WRITE] ELSE {})
    \cup (IF Has(mask, UX_G_EXECUTE) THEN WinMasks[WIN_EXECUTE] ELSE {})

GroupAllow(mask) ==
    WinMasks[WIN_ALL]
    \cup (IF Has(mask, UX_G_READ) THEN FILE_GENERIC_READ ELSE {})
    \cup (IF Has(mask, UX_G_WRITE) THEN WinMasks[WIN_WRITE] ELSE {})
    \cup (IF Has(mask, UX_G_EXECUTE) THEN WinMasks[WIN_EXECUTE] ELSE {})

\* a GroupDeny that never denies anything
GroupDeny_Nothing(mask) == And(mask, {})

\* lines 1048-1059
GroupDeny(mask) ==
    (IF ~Has(mask, UX_G_READ) /\ Has(mask, UX_O_READ)
     THEN WinMasks[WIN_READ] ELSE {})
    \cup (IF ~Has(mask, UX_G_WRITE) /\ Has(mask, UX_O_WRITE)
          THEN WinMasks[WIN_WRITE] ELSE {})
    \cup (IF ~Has(mask, UX_G_EXECUTE) /\ Has(mask, UX_O_EXECUTE)
          THEN WinMasks[WIN_EXECUTE] ELSE {})

\* lines 1061-1069
OtherAllow(mask) ==
    WinMasks[WIN_ALL]
    \cup (IF Has(mask, UX_O_READ) THEN WinMasks[WIN_READ] ELSE {})
    \cup (IF Has(mask, UX_O_WRITE) THEN WinMasks[WIN_WRITE] ELSE {})
    \cup (IF Has(mask, UX_O_EXECUTE) THEN WinMasks[WIN_EXECUTE] ELSE {})

GetWindowsAccessMask(mask) ==
    [userAllow  |-> UserAllow(mask),  userDeny  |-> UserDeny(mask),
     groupAllow |-> GroupAllow(mask), groupDeny |-> GroupDeny(mask),
     otherAllow |-> OtherAllow(mask)]

-----------------------------------------------------------------------------
(* GetWindowsDACLs, lines 1085-1186.  pOwnerSid and pGroupSid are the SIDs  *)
(* of the object's owner and group; fail names the native call that fails, *)
(* or is "none".  The result is [ret, dacl]: dacl is the list assigned to  *)
(* *ppNewDACL, which is left NULL (<<>>) when the function returns FALSE.  *)

EveryoneSid == "Everyone"

Ace(type, mask, sid, native) ==
    [type |-> type, mask |-> mask, sid |-> sid, native |-> native]

\* lines 1145-1176: the five calls in order; a deny entry is added only when
\* its mask is not zero
AceCalls_AllowFirst(m, pOwnerSid, pGroupSid) ==
    <<Ace("allow", m.userAllow, pOwnerSid, "AddAccessAllowedAce(owner)")>>
    \o (IF m.userDeny # {}
        THEN <<Ace("deny", m.userDeny, pOwnerSid, "AddAccessDeniedAce(owner)")>>
        ELSE <<>>)
    \o <<Ace("allow", m.groupAllow, pGroupSid, "AddAccessAllowedAce(group)")>>
    \o (IF m.groupDeny # {}
        THEN <<Ace("deny", m.groupDeny, pGroupSid, "AddAccessDeniedAce(group)")>>
        ELSE <<>>)
    \o <<Ace("allow", m.otherAllow, EveryoneSid, "AddAccessAllowedAce(everyone)")>>

AceCalls(m, pOwnerSid, pGroupSid) ==
    (IF m.userDeny # {}
     THEN <<Ace("deny", m.userDeny, pOwnerSid, "AddAccessDeniedAce(owner)")>>
     ELSE <<>>)
    \o <<Ace("allow", m.userAllow, pOwnerSid, "AddAccessAllowedAce(owner)")>>
    \o (IF m.groupDeny # {}
        THEN <<Ace("deny", m.groupDeny, pGroupSid, "AddAccessDeniedAce(group)")>>
        ELSE <<>>)
    \o <<Ace("allow", m.groupAllow, pGroupSid, "AddAccessAllowedAce(group)")>>
    \o <<Ace("allow", m.otherAllow, EveryoneSid, "AddAccessAllowedAce(everyone)")>>

\* the native calls of GetWindowsDACLs that can fail
DaclNativeCalls ==
    {"AllocateAndInitializeSid", "LocalAlloc(ACL)", "InitializeAcl",
     "AddAccessDeniedAce(owner)", "AddAccessAllowedAce(owner)",
     "AddAccessDeniedAce(group)", "AddAccessAllowedAce(group)",
     "AddAccessAllowedAce(everyone)"}

\* an entry of the list is the type, the access mask and the SID
Entry(a) == [type |-> a.type, mask |-> a.mask, sid |-> a.sid]

GetWindowsDACLs(mask, pOwnerSid, pGroupSid, fail) ==
    LET m     == GetWindowsAccessMask(mask)
        calls == AceCalls(m, pOwnerSid, pGroupSid)
    IN IF fail \in {"AllocateAndInitializeSid", "LocalAlloc(ACL)", "InitializeAcl"}
       THEN [ret |-> FALSE, dacl |-> <<>>]
       ELSE IF \E i \in 1..Len(calls) : calls[i].native = fail
       THEN [ret |-> FALSE, dacl |-> <<>>]
       ELSE [ret |-> TRUE, dacl |-> [i \in 1..Len(calls) |-> Entry(calls[i])]]

-----------------------------------------------------------------------------
(* The synthesis of the list for every mask ChangeFileModeByMask can pass   *)

InitAcl ==
    /\ pc = "dacl"
    /\ unixMask \in OldModes
    /\ winMasks = <<>>
    /\ newDacl = <<>>
    /\ IdleCompute
    /\ IdleParse
    /\ IdleRun

\* one call GetWindowsDACLs(unixMask, owner, group, &pNewDACL)
CallGetWindowsDACLs ==
    /\ pc = "dacl"
    /\ winMasks' = GetWindowsAccessMask(unixMask)
    /\ \E fail \in DaclNativeCalls \cup {"none"} :
          newDacl' = GetWindowsDACLs(unixMask, "Owner", "Group", fail)
    /\ pc' = "dacl_done"
    /\ UNCHANGED <<unixMask, computeVars, parseVars, runVars>>

NextAcl == CallGetWindowsDACLs

SpecAcl == InitAcl /\ [][NextAcl]_vars

-----------------------------------------------------------------------------
(* Claims about the synthesized list, checked under SpecAcl.  Bit 3c + j   *)
(* of a mask is the right j (2 read, 1 write, 0 execute) of class c        *)
(* (2 owner, 1 group, 0 other).                                            *)

RightOf(j) ==
    IF j = 2 THEN WinMasks[WIN_READ]
    ELSE IF j = 1 THEN WinMasks[WIN_WRITE]
    ELSE WinMasks[WIN_EXECUTE]

RightsOfClass(mask, c) == UNION {RightOf(j) : j \in {k \in 0..2 : (3 * c + k) \in mask}}

\* C7: the owner's deny set contains a right iff the owner bit is clear and
\* the group or the other bit is set; the group's deny set contains a right
\* iff the group bit is clear and the other bit is set; the deny sets hold
\* nothing else.
C7_DenyLaw ==
    pc = "dacl_done"
        => /\ \A j \in 0..2 :
                /\ RightOf(j) \subseteq winMasks.userDeny
                      <=> ((6 + j) \notin unixMask
                           /\ ((3 + j) \in unixMask \/ j \in unixMask))
                /\ RightOf(j) \subseteq winMasks.groupDeny
                      <=> ((3 + j) \notin unixMask /\ j \in unixMask)
           /\ winMasks.userDeny \cup winMasks.groupDeny
                 \subseteq RightOf(0) \cup RightOf(1) \cup RightOf(2)

\* C7 witness: for mask 0047 the owner is denied read, write and execute and
\* the group write and execute.
C7_Witness ==
    /\ pc = "dacl_done"
    /\ unixMask = {5, 2, 1, 0}
    /\ winMasks.userDeny = RightOf(0) \cup RightOf(1) \cup RightOf(2)
    /\ winMasks.groupDeny = RightOf(0) \cup RightOf(1)

\* C8: every allow set contains the baseline rights, contains read, write,
\* execute exactly when the bit of its own class is set, and is determined by
\* the bits of its own class alone: it is the baseline (for the owner, with
\* the owner's standing rights) and the rights of the class's set bits.
C8_AllowLaw ==
    pc = "dacl_done"
        => LET allow == <<winMasks.otherAllow, winMasks.groupAllow, winMasks.userAllow>>
           IN \A c \in 0..2 :
                 /\ WinMasks[WIN_ALL] \subseteq allow[c + 1]
                 /\ \A j \in 0..2 :
                       RightOf(j) \subseteq allow[c + 1] <=> (3 * c + j) \in unixMask
                 /\ allow[c + 1] =
                       WinMasks[WIN_ALL]
                       \cup (IF c = 2 THEN WinMasks[WIN_OWNER_SE] ELSE {})
                       \cup RightsOfClass(unixMask, c)

\* C8 witness: for mask 0421 the owner is allowed read only, the group write
\* only and the others execute only.
C8_Witness ==
    /\ pc = "dacl_done"
    /\ unixMask = {8, 4, 0}
    /\ RightOf(2) \subseteq winMasks.userAllow
    /\ RightOf(1) \subseteq winMasks.groupAllow
    /\ RightOf(0) \subseteq winMasks.otherAllow
    /\ ~(RightOf(2) \subseteq winMasks.groupAllow)

AllowEntries(d) == SelectSeq(d, LAMBDA e : e.type = "allow")

\* C9: the list GetWindowsDACLs returns holds the three allow entries, of the
\* owner, the group and everyone in this order; a deny entry stands directly
\* before the allow entry of its own principal, there is at most one per
\* principal and none for everyone; the entries carry the computed masks.
C9_DaclOrder ==
    (pc = "dacl_done" /\ newDacl.ret)
        => LET d == newDacl.dacl
               a == AllowEntries(d)
           IN /\ Len(a) = 3
              /\ a[1] = [type |-> "allow", mask |-> winMasks.userAllow, sid |-> "Owner"]
              /\ a[2] = [type |-> "allow", mask |-> winMasks.groupAllow, sid |-> "Group"]
              /\ a[3] = [type |-> "allow", mask |-> winMasks.otherAllow,
                         sid |-> EveryoneSid]
              /\ \A i \in 1..Len(d) :
                    d[i].type = "deny"
                       => /\ d[i].sid \in {"Owner", "Group"}
                          /\ d[i].mask = IF d[i].sid = "Owner" THEN winMasks.userDeny
                                         ELSE winMasks.groupDeny
                          /\ d[i].mask # {}
                          /\ i < Len(d)
                          /\ d[i + 1].type = "allow"
                          /\ d[i + 1].sid = d[i].sid
              /\ \A i, k \in 1..Len(d) :
                    (d[i].type = "deny" /\ d[k].type = "deny" /\ d[i].sid = d[k].sid)
                       => i = k

\* C9 witness: for mask 0047 the list is owner deny, owner allow, group deny,
\* group allow, everyone allow.
C9_Witness ==
    /\ pc = "dacl_done" /\ newDacl.ret
    /\ unixMask = {5, 2, 1, 0}
    /\ Len(newDacl.dacl) = 5
    /\ [i \in 1..5 |-> <<newDacl.dacl[i].type, newDacl.dacl[i].sid>>]
          = << <<"deny", "Owner">>, <<"allow", "Owner">>, <<"deny", "Group">>,
               <<"allow", "Group">>, <<"allow", EveryoneSid>> >>

-----------------------------------------------------------------------------
(* Mode strings.  A string is the sequence of its characters; the          *)
(* character at index len is the terminating NUL.                          *)

NUL == "NUL"

\* modeString[i], for 0 <= i <= len
At(s, i) == IF i < Len(s) THEN s[i + 1] ELSE NUL

OctalDigits == <<"0", "1", "2", "3", "4", "5", "6", "7">>

\* c >= L'0' && c <= L'7'
IsOctalDigit(c) == \E d \in 1..Len(OctalDigits) : OctalDigits[d] = c

DigitValue(c) == (CHOOSE d \in 1..Len(OctalDigits) : OctalDigits[d] = c) - 1

\* wcstol(s + from, &end, 8) on a string of digits: the value of the longest
\* prefix of octal digits, and the index where it stops
RECURSIVE Wcstol(_, _, _)
Wcstol(s, i, acc) ==
    IF i < Len(s) /\ IsOctalDigit(At(s, i))
    THEN Wcstol(s, i + 1, 8 * acc + DigitValue(At(s, i)))
    ELSE [l |-> acc, end |-> i]

\* the bound of line 978, written 0x0777 there
OctalLimit == 1911

-----------------------------------------------------------------------------
(* ParseOctalMode, lines 944-986: [ret, mask]; *uMask is written only on   *)
(* success.                                                                *)

ParseOctalMode_KeepsLeadingDigit(tsMask) ==
    LET tsMaskLen == Len(tsMask)
    IN IF tsMaskLen # 4 /\ tsMaskLen # 3
       THEN [ret |-> FALSE, mask |-> {}]
       ELSE IF \E i \in 0..(tsMaskLen - 1) : ~IsOctalDigit(At(tsMask, tsMaskLen - i - 1))
       THEN [ret |-> FALSE, mask |-> {}]
       ELSE LET r == Wcstol(tsMask, 0, 0)
            IN IF r.l > OctalLimit \/ r.l < 0 \/ At(tsMask, r.end) # NUL
               THEN [ret |-> FALSE, mask |-> {}]
               ELSE [ret |-> TRUE, mask |-> Bits(r.l % (2^UShortBits))]

ParseOctalMode(tsMask) ==
    LET tsMaskLen == Len(tsMask)
    IN IF tsMaskLen # 4 /\ tsMaskLen # 3
       THEN [ret |-> FALSE, mask |-> {}]
       ELSE IF \E i \in 0..(tsMaskLen - 1) : ~IsOctalDigit(At(tsMask, tsMaskLen - i - 1))
       THEN [ret |-> FALSE, mask |-> {}]
       ELSE LET r == IF tsMaskLen = 4 THEN Wcstol(tsMask, 1, 0) ELSE Wcstol(tsMask, 0, 0)
            IN IF r.l > OctalLimit \/ r.l < 0 \/ At(tsMask, r.end) # NUL
               THEN [ret |-> FALSE, mask |-> {}]
               ELSE [ret |-> TRUE, mask |-> Bits(r.l % (2^UShortBits))]

-----------------------------------------------------------------------------
(* ParseMode, lines 754-926.  The locals are the record                    *)
(* [state, action, lastWho, i, actions, ret]: actions is the list hanging  *)
(* from *pActions, ret is "running" inside the loop and "FALSE" after a    *)
(* return FALSE.  lastWho is not initialized and is written before it is   *)
(* read.  One iteration of the while loop is ParseModeIteration; allocOk   *)
(* tells whether the LocalAlloc of line 889 succeeds.                      *)

INIT_MODE_CHANGE_ACTION ==
    [who |-> CHMOD_WHO_NONE, op |-> CHMOD_OP_INVALID, perm |-> CHMOD_PERM_NA,
     ref |-> CHMOD_WHO_NONE]

ParseModeEntry ==
    [state |-> "WHO", action |-> INIT_MODE_CHANGE_ACTION, lastWho |-> CHMOD_WHO_NONE,
     i |-> 0, actions |-> <<>>, ret |-> "running"]

\* return FALSE, after FreeActions has freed the list
ParseModeFail(p) == [p EXCEPT !.ret = "FALSE", !.actions = <<>>]

\* lines 784-807
WhoState(p, c) ==
    IF c = "a" THEN [p EXCEPT !.action.who = Or(@, CHMOD_WHO_ALL), !.i = @ + 1]
    ELSE IF c = "u" THEN [p EXCEPT !.action.who = Or(@, CHMOD_WHO_USER), !.i = @ + 1]
    ELSE IF c = "g" THEN [p EXCEPT !.action.who = Or(@, CHMOD_WHO_GROUP), !.i = @ + 1]
    ELSE IF c = "o" THEN [p EXCEPT !.action.who = Or(@, CHMOD_WHO_OTHER), !.i = @ + 1]
    ELSE [p EXCEPT !.state = "OP"]

\* lines 808-828
OpState(p, c) ==
    IF c = "+" THEN [p EXCEPT !.action.op = CHMOD_OP_PLUS, !.i = @ + 1, !.state = "PERM"]
    ELSE IF c = "-"
    THEN [p EXCEPT !.action.op = CHMOD_OP_MINUS, !.i = @ + 1, !.state = "PERM"]
    ELSE IF c = "="
    THEN [p EXCEPT !.action.op = CHMOD_OP_EQUAL, !.i = @ + 1, !.state = "PERM"]
    ELSE ParseModeFail(p)

\* lines 829-852
PermState(p, c) ==
    IF c = "r" THEN [p EXCEPT !.action.perm = Or(@, CHMOD_PERM_R), !.i = @ + 1]
    ELSE IF c = "w" THEN [p EXCEPT !.action.perm = Or(@, CHMOD_PERM_W), !.i = @ + 1]
    ELSE IF c = "x" THEN [p EXCEPT !.action.perm = Or(@, CHMOD_PERM_X), !.i = @ + 1]
    ELSE IF c = "X" THEN [p EXCEPT !.action.perm = Or(@, CHMOD_PERM_LX), !.i = @ + 1]
    ELSE [p EXCEPT !.state = "REF"]

\* a REF state whose default case goes back to the PERM state
RefState_BackToPerm(p, c) ==
    IF c = "u" THEN [p EXCEPT !.action.ref = CHMOD_WHO_USER, !.i = @ + 1]
    ELSE IF c = "g" THEN [p EXCEPT !.action.ref = CHMOD_WHO_GROUP, !.i = @ + 1]
    ELSE IF c = "o" THEN [p EXCEPT !.action.ref = CHMOD_WHO_OTHER, !.i = @ + 1]
    ELSE [p EXCEPT !.state = "PERM"]

\* lines 853-872
RefState(p, c) ==
    IF c = "u" THEN [p EXCEPT !.action.ref = CHMOD_WHO_USER, !.i = @ + 1]
    ELSE IF c = "g" THEN [p EXCEPT !.action.ref = CHMOD_WHO_GROUP, !.i = @ + 1]
    ELSE IF c = "o" THEN [p EXCEPT !.action.ref = CHMOD_WHO_OTHER, !.i = @ + 1]
    ELSE [p EXCEPT !.state = "END"]

\* lines 873-923 without the test of line 912: the who set outlives a comma
EndState_WhoOverComma(p, c, allocOk) ==
    IF c \in {NUL, ",", "+", "-", "="}
    THEN IF ~allocOk
         THEN ParseModeFail(p)
         ELSE LET who == IF p.action.who = CHMOD_WHO_NONE THEN CHMOD_WHO_ALL
                         ELSE p.action.who
                  node == [p.action EXCEPT !.who = who]
              IN [p EXCEPT !.i = IF c \in {NUL, ","} THEN @ + 1 ELSE @,
                           !.state = "WHO",
                           !.actions = Append(@, node),
                           !.lastWho = who,
                           !.action = [INIT_MODE_CHANGE_ACTION EXCEPT !.who = who]]
    ELSE ParseModeFail(p)

\* lines 873-923: NUL and ',' are consumed and fall through to the operator
\* cases, which append the action and reset it
EndState(p, c, allocOk) ==
    IF c \in {NUL, ",", "+", "-", "="}
    THEN IF ~allocOk
         THEN ParseModeFail(p)
         ELSE LET who == IF p.action.who = CHMOD_WHO_NONE THEN CHMOD_WHO_ALL
                         ELSE p.action.who
                  node == [p.action EXCEPT !.who = who]
              IN [p EXCEPT !.i = IF c \in {NUL, ","} THEN @ + 1 ELSE @,
                           !.state = "WHO",
                           !.actions = Append(@, node),
                           !.lastWho = who,
                           !.action = IF c # ","
                                      THEN [INIT_MODE_CHANGE_ACTION EXCEPT !.who = who]
                                      ELSE INIT_MODE_CHANGE_ACTION]
    ELSE ParseModeFail(p)

\* the body of the while loop, lines 783-923
ParseModeIteration(s, p, allocOk) ==
    LET c == At(s, p.i)
    IN CASE p.state = "WHO"  -> WhoState(p, c)
         [] p.state = "OP"   -> OpState(p, c)
         [] p.state = "PERM" -> PermState(p, c)
         [] p.state = "REF"  -> RefState(p, c)
         [] p.state = "END"  -> EndState(p, c, allocOk)

\* while (i <= len)
ParseModeLoops(s, p) == p.ret = "running" /\ p.i <= Len(s)

\* the whole loop from p on; the failAlloc-th allocation fails (0: none does)
RECURSIVE ParseModeLoop(_, _, _)
ParseModeLoop(s, p, failAlloc) ==
    IF ParseModeLoops(s, p)
    THEN ParseModeLoop(s, ParseModeIteration(s, p, Len(p.actions) + 1 # failAlloc),
                       failAlloc)
    ELSE p

\* ParseMode(modeString, &actions), the list being NULL on entry: [ret, actions]
ParseMode(s, failAlloc) ==
    LET p == ParseModeLoop(s, ParseModeEntry, failAlloc)
    IN [ret |-> p.ret # "FALSE", actions |-> p.actions]

-----------------------------------------------------------------------------
(* The mode strings of the model *)

MaxModeLen == 3

Alphabet == {"a", "u", "g", "o", "+", "-", "=", "r", "w", "x", "X", ",", "0", "z"}

Str(n, chars) == [1..n -> chars]

ShortStrings == UNION {Str(n, Alphabet) : n \in 0..MaxModeLen}

OctalChars == {OctalDigits[d] : d \in 1..Len(OctalDigits)}

\* every string of three and of four octal digits
OctalStrings == Str(3, OctalChars) \cup Str(4, OctalChars)

\* the mode strings the specification names
Specimens ==
    { <<"u", "=", "r", "w", "x", ",", "g", "=", "r", "x", ",", "o", "=">>,
      <<"u", "+", "x">>, <<"g", "o", "-", "w">>, <<"a", "=", "r">>,
      <<"u", "+", "r", "-", "w">>, <<"+", "r">>, <<"g", "=", "u">>,
      <<"a", "=", "u">>, <<"a", "=", "r", ",", "a", "+", "X">>,
      <<"a", "+", "r", "X">>, <<"0", "7", "5", "5">> }

\* strings of several clauses and of several operators in a clause
ClauseSpecimens ==
    { <<"u", "+", ",", "+">>, <<"u", "+", "r", ",", "-", "w">>,
      <<"u", "g", "=", "r", ",", "o", "-", "x", "+", "w">>,
      <<"g", "-", "w", "+", "x", ",", "a", "u", "=", "r">> }

ModeStrings == ShortStrings \cup OctalStrings \cup Specimens \cup ClauseSpecimens

-----------------------------------------------------------------------------
(* The parse of the MODE argument, lines 526-535 of                        *)
(* ParseCommandLineArguments, with ParseMode one loop iteration at a time  *)

InitParse ==
    /\ pc = "octal"
    /\ modeString \in ModeStrings
    /\ ps = <<>>
    /\ unixAccessMask = {}
    /\ actions = <<>>
    /\ IdleCompute
    /\ IdleAcl
    /\ IdleRun

\* line 526: if (ParseOctalMode(maskString, mask)) return TRUE
CallParseOctalMode ==
    /\ pc = "octal"
    /\ LET r == ParseOctalMode(modeString)
       IN IF r.ret
          THEN /\ unixAccessMask' = r.mask
               /\ pc' = "parsed"
               /\ ps' = ps
          ELSE /\ unixAccessMask' = unixAccessMask
               /\ pc' = "symbolic"
               /\ ps' = ParseModeEntry
    /\ UNCHANGED <<modeString, actions, computeVars, aclVars, runVars>>

IterateIn(state, allocOk) ==
    /\ pc = "symbolic"
    /\ ParseModeLoops(modeString, ps)
    /\ ps.state = state
    /\ ps' = ParseModeIteration(modeString, ps, allocOk)
    /\ UNCHANGED <<pc, modeString, unixAccessMask, actions, computeVars, aclVars,
                   runVars>>

ParseModeWho == IterateIn("WHO", TRUE)
ParseModeOp == IterateIn("OP", TRUE)
ParseModePerm == IterateIn("PERM", TRUE)
ParseModeRef == IterateIn("REF", TRUE)
ParseModeEnd == \E allocOk \in BOOLEAN : IterateIn("END", allocOk)

\* lines 530-535: ParseMode returns, and ParseCommandLineArguments with it
ParseModeReturn ==
    /\ pc = "symbolic"
    /\ ~ParseModeLoops(modeString, ps)
    /\ pc' = IF ps.ret = "FALSE" THEN "failed" ELSE "parsed"
    /\ actions' = ps.actions
    /\ UNCHANGED <<modeString, ps, unixAccessMask, computeVars, aclVars, runVars>>

NextParse ==
    \/ CallParseOctalMode
    \/ ParseModeWho
    \/ ParseModeOp
    \/ ParseModePerm
    \/ ParseModeRef
    \/ ParseModeEnd
    \/ ParseModeReturn

SpecParse == InitParse /\ [][NextParse]_vars

\* the parse as the one thread of the process runs it: a step that can be
\* taken is taken
SpecParseLive == SpecParse /\ WF_vars(NextParse)

-----------------------------------------------------------------------------
(* Claims about the parsers, checked under SpecParse *)

AllOctal(s) == \A i \in 1..Len(s) : s[i] \in {"0", "1", "2", "3", "4", "5", "6", "7"}

ValueOfDigit ==
    [c \in {"0", "1", "2", "3", "4", "5", "6", "7"} |->
        CASE c = "0" -> 0 [] c = "1" -> 1 [] c = "2" -> 2 [] c = "3" -> 3
          [] c = "4" -> 4 [] c = "5" -> 5 [] c = "6" -> 6 [] c = "7" -> 7]

\* the mask whose class k (0 other, 1 group, 2 owner) holds the bits of the
\* digit k places before the end of s
MaskOfLastThree(s) ==
    {b \in 0..8 : (ValueOfDigit[s[Len(s) - (b \div 3)]] \div (2^(b % 3))) % 2 = 1}

\* C10: a string of three or of four octal digits is parsed by ParseOctalMode,
\* successfully, to the mask of its last three digits (the leading digit of
\* four has no influence), and the mask ParseOctalMode stores is always
\* within 9 bits.
C10_OctalValue ==
    /\ (pc # "octal" /\ Len(modeString) \in {3, 4} /\ AllOctal(modeString))
          => /\ pc = "parsed"
             /\ ps = <<>>
             /\ actions = <<>>
             /\ unixAccessMask = MaskOfLastThree(modeString)
    /\ unixAccessMask \subseteq 0..8

\* C10 witness: "1755" is parsed to 0755.
C10_Witness ==
    /\ pc = "parsed"
    /\ modeString = <<"1", "7", "5", "5">>
    /\ unixAccessMask = {8, 7, 6, 5, 3, 2, 0}

\* the length and character check of ParseOctalMode, as the claims word it
OctalCheck(s) == Len(s) \in {3, 4} /\ AllOctal(s)

WhoLetters == {"a", "u", "g", "o"}
OpLetters == {"+", "-", "="}
PermLetters == {"r", "w", "x", "X"}
RefLetters == {"u", "g", "o"}

\* the grammar of the specification, from position i on:
\*   mode ::= clause (',' clause)*,  clause ::= who* (op perm* | op ref)+
\* st is "who" at the start of a clause, "op" after an operator, "perm" after
\* a permission letter and "ref" after the one reference letter
RECURSIVE GrammarFrom(_, _, _)
GrammarFrom(s, i, st) ==
    IF i > Len(s) THEN st \in {"op", "perm", "ref"}
    ELSE LET c == s[i]
         IN IF c \in OpLetters THEN GrammarFrom(s, i + 1, "op")
            ELSE IF st = "who"
            THEN c \in WhoLetters /\ GrammarFrom(s, i + 1, "who")
            ELSE IF c = "," THEN GrammarFrom(s, i + 1, "who")
            ELSE IF c \in PermLetters
            THEN st \in {"op", "perm"} /\ GrammarFrom(s, i + 1, "perm")
            ELSE c \in RefLetters /\ st = "op" /\ GrammarFrom(s, i + 1, "ref")

SymbolicGrammar(s) == GrammarFrom(s, 1, "who")

\* the parse has failed although no character of the string was refused: an
\* allocation has failed
FailedForMemory == pc = "failed" /\ ParseMode(modeString, 0).ret

\* C11: the mode string is first tried as octal; the symbolic parse is
\* attempted exactly when the octal length and character check fails; the
\* parse of the argument fails exactly when the string fails both the octal
\* check and the symbolic grammar.
C11_OctalThenSymbolic ==
    /\ pc = "symbolic" => ~OctalCheck(modeString)
    /\ (pc # "octal" /\ ~OctalCheck(modeString)) => ps # <<>>
    /\ pc = "parsed" => (OctalCheck(modeString) \/ SymbolicGrammar(modeString))
    /\ (pc = "failed" /\ ~FailedForMemory)
          => (~OctalCheck(modeString) /\ ~SymbolicGrammar(modeString))

\* C13: ParseMode accepts only strings in which an operator is followed by
\* permission letters or by exactly one reference letter, never by both and
\* never by two reference letters; in every action of a list it produces,
\* perm and ref are not both set.
C13_PermRefExclusive ==
    (pc = "parsed" /\ actions # <<>>)
        => /\ SymbolicGrammar(modeString)
           /\ \A k \in 1..Len(actions) :
                 actions[k].perm = CHMOD_PERM_NA \/ actions[k].ref = CHMOD_WHO_NONE

\* the positions of the operator characters of s, in order
OpPositions(s) ==
    SelectSeq([i \in 1..Len(s) |-> i], LAMBDA i : s[i] \in OpLetters)

\* the first position of the clause that holds position i
ClauseStart(s, i) ==
    LET commas == {j \in 1..(i - 1) : s[j] = ","}
    IN IF commas = {} THEN 1
       ELSE 1 + (CHOOSE j \in commas : \A k \in commas : k <= j)

WhoOfLetter(c) ==
    CASE c = "a" -> CHMOD_WHO_ALL
      [] c = "u" -> CHMOD_WHO_USER
      [] c = "g" -> CHMOD_WHO_GROUP
      [] c = "o" -> CHMOD_WHO_OTHER

PermOfLetter(c) ==
    CASE c = "r" -> CHMOD_PERM_R
      [] c = "w" -> CHMOD_PERM_W
      [] c = "x" -> CHMOD_PERM_X
      [] c = "X" -> CHMOD_PERM_LX

OpOfLetter(c) ==
    CASE c = "+" -> CHMOD_OP_PLUS
      [] c = "-" -> CHMOD_OP_MINUS
      [] c = "=" -> CHMOD_OP_EQUAL

\* the who set written at the start of the clause that holds position i:
\* the union of its leading who letters, all classes when there is none
ClauseWho(s, i) ==
    LET start   == ClauseStart(s, i)
        leading == {j \in start..Len(s) : \A k \in start..j : s[k] \in WhoLetters}
        who     == UNION {WhoOfLetter(s[j]) : j \in leading}
    IN IF who = {} THEN CHMOD_WHO_ALL ELSE who

\* the permission letters written after the operator at position i, up to the
\* next operator or comma
PermsAfter(s, i) ==
    LET segment == {j \in (i + 1)..Len(s) :
                       \A k \in (i + 1)..j : s[k] \notin (OpLetters \cup {","})}
    IN UNION {PermOfLetter(s[j]) : j \in {k \in segment : s[k] \in PermLetters}}

\* C14: the list of a successful ParseMode has one action per operator
\* character, in source order, and every action of a clause carries the who
\* set written at the start of that clause, or all classes when none is
\* written; a who set does not carry over a comma.
C14_OneActionPerOperator ==
    (pc = "parsed" /\ actions # <<>>)
        => LET ops == OpPositions(modeString)
           IN /\ Len(actions) = Len(ops)
              /\ \A k \in 1..Len(ops) :
                    /\ actions[k].op = OpOfLetter(modeString[ops[k]])
                    /\ actions[k].who = ClauseWho(modeString, ops[k])
                    /\ actions[k].perm = PermsAfter(modeString, ops[k])

\* C14 witness: "ug=r,o-x+w" is parsed to three actions, the first for the
\* owner and the group, the second and the third for the others.
C14_Witness ==
    /\ pc = "parsed"
    /\ modeString = <<"u", "g", "=", "r", ",", "o", "-", "x", "+", "w">>
    /\ Len(actions) = 3
    /\ actions[1].who = Or(CHMOD_WHO_USER, CHMOD_WHO_GROUP)
    /\ actions[2].who = CHMOD_WHO_OTHER /\ actions[2].op = CHMOD_OP_MINUS
    /\ actions[3].who = CHMOD_WHO_OTHER /\ actions[3].op = CHMOD_OP_PLUS

-----------------------------------------------------------------------------
(* The file system of the model: a directory d holding a file, an empty    *)
(* directory and a directory with one file.  FindFirstFile and             *)
(* FindNextFile enumerate ".", ".." and the children in a fixed order.     *)

RootDir == "d"
Objects == {"d", "d/f", "d/e", "d/s", "d/s/g"}
Directories == {"d", "d/e", "d/s"}

Children ==
    [o \in Objects |->
        CASE o = "d"   -> <<"d/f", "d/e", "d/s">>
          [] o = "d/s" -> <<"d/s/g">>
          [] OTHER     -> <<>>]

\* the entries FindFirstFile(path\*) and FindNextFileW yield, the children by
\* the path the walker builds for them (lines 283-285)
Entries(path) == <<".", "..">> \o Children[path]

\* an IsDirFileInfo that takes every object for a directory
IsDirFileInfo_Always(path) == path \in Objects

\* IsDirFileInfo on the information GetFileInformationByName returns
IsDirFileInfo(path) == path \in Directories

\* the DACL an earlier chmod to this mode has written
DaclOf(mode) == GetWindowsDACLs(mode, "Owner", "Group", "none").dacl

ObjectWith(mode) == [mode |-> mode, dacl |-> DaclOf(mode)]

\* FindFileOwnerAndPermission(path, NULL, NULL, &mode) of libwinutils.c: adds
\* the permission bits the object's DACL encodes to *mode
FindFileOwnerAndPermission(fsys, path, mode) == Or(mode, fsys[path].mode)

\* lines 677-693 of ConvertActionsToMask: the state the fold starts from
CurrentMode_OfRoot(fsys, path) ==
    FindFileOwnerAndPermission(fsys, RootDir,
        IF IsDirFileInfo(RootDir) THEN UX_DIRECTORY ELSE {})

CurrentMode(fsys, path) ==
    FindFileOwnerAndPermission(fsys, path,
        IF IsDirFileInfo(path) THEN UX_DIRECTORY ELSE {})

\* line 704: one iteration of the loop over the list
FoldStep(mode, curr) == ComputeNewMode(mode, curr.who, curr.op, curr.perm, curr.ref)

-----------------------------------------------------------------------------
(* What a run leaves behind besides the file system: the native calls it   *)
(* makes on the file system, and the resources it holds.                   *)

\* one native call on path, made by the function by, and whether it succeeded
Native(name, by, path, ok) == [call |-> name, by |-> by, path |-> path, ok |-> ok]

\* the list nodes, the long path, the search pattern and the child's path of
\* ChangeFileModeRecursively, its search handle, the security descriptor, the
\* five buffers of its absolute form, the new list and the Everyone SID
Resources ==
    {"action", "longPathName", "dir", "filename", "hFind",
     "pSD", "pAbs", "pNewDACL", "pEveryoneSid"}

NoneHeld == [k \in Resources |-> 0]

Acquire(h, k, n) == [h EXCEPT ![k] = @ + n]
Release(h, k, n) == [h EXCEPT ![k] = @ - n]

-----------------------------------------------------------------------------
(* ChangeFileModeByMask, lines 326-463: [ret, fs].  fail names the native  *)
(* call that fails, or is "none"; the descriptor GetNamedSecurityInfoW     *)
(* returns is self-relative, so that the branch of lines 382-414 is taken. *)

ByMaskNativeCalls ==
    {"GetNamedSecurityInfoW", "GetSecurityDescriptorControl", "MakeAbsoluteSD(size)",
     "LocalAlloc(absSD)", "MakeAbsoluteSD", "SetSecurityDescriptorDacl",
     "SetFileSecurity"}
    \cup DaclNativeCalls

\* the calls that fail before GetWindowsDACLs is called
ByMaskEarlyCalls ==
    {"GetNamedSecurityInfoW", "GetSecurityDescriptorControl", "MakeAbsoluteSD(size)",
     "LocalAlloc(absSD)", "MakeAbsoluteSD"}

\* lines 326-463 with the list in place before SetFileSecurity has succeeded
ChangeFileModeByMask_WritesFirst(fsys, path, mode, fail) ==
    IF fail \in ByMaskEarlyCalls
    THEN [ret |-> FALSE, fs |-> fsys]
    ELSE LET d == GetWindowsDACLs(mode, "Owner", "Group", fail)
         IN IF ~d.ret \/ fail = "SetSecurityDescriptorDacl"
            THEN [ret |-> FALSE, fs |-> fsys]
            ELSE [ret |-> fail # "SetFileSecurity",
                  fs  |-> [fsys EXCEPT ![path] =
                              [mode |-> And(mode, CHMOD_WHO_ALL), dacl |-> d.dacl]]]

ChangeFileModeByMask(fsys, path, mode, fail) ==
    IF fail \in ByMaskEarlyCalls
    THEN [ret |-> FALSE, fs |-> fsys]
    ELSE LET d == GetWindowsDACLs(mode, "Owner", "Group", fail)
         IN IF ~d.ret \/ fail \in {"SetSecurityDescriptorDacl", "SetFileSecurity"}
            THEN [ret |-> FALSE, fs |-> fsys]
            ELSE [ret |-> TRUE,
                  fs  |-> [fsys EXCEPT ![path] =
                              [mode |-> And(mode, CHMOD_WHO_ALL), dacl |-> d.dacl]]]

\* the calls ChangeFileModeByMask makes on the file system: lines 350 and 445
ByMaskTrace(path, fail) ==
    <<Native("GetNamedSecurityInfoW", "ChangeFileModeByMask", path,
             fail # "GetNamedSecurityInfoW")>>
    \o IF fail \in ByMaskEarlyCalls \cup DaclNativeCalls \cup {"SetSecurityDescriptorDacl"}
       THEN <<>>
       ELSE <<Native("SetFileSecurity", "ChangeFileModeByMask", path,
                     fail # "SetFileSecurity")>>

\* what ChangeFileModeByMask and GetWindowsDACLs have acquired when they return
ByMaskAcquired(fail) ==
    (IF fail = "GetNamedSecurityInfoW" THEN {} ELSE {"pSD"})
    \cup (IF fail \in {"GetNamedSecurityInfoW", "GetSecurityDescriptorControl",
                       "MakeAbsoluteSD(size)"}
          THEN {} ELSE {"pAbs"})
    \cup (IF fail \in ByMaskEarlyCalls \cup {"AllocateAndInitializeSid"}
          THEN {} ELSE {"pEveryoneSid"})
    \cup (IF fail \in ByMaskEarlyCalls \cup {"AllocateAndInitializeSid", "LocalAlloc(ACL)"}
          THEN {} ELSE {"pNewDACL"})

\* what lines 1181-1185 and 453-462 release: FreeSid in GetWindowsDACLs once
\* the SID exists, and the LocalFree of every buffer, a NULL one included
ByMaskReleased(fail) ==
    (IF fail \in ByMaskEarlyCalls \cup {"AllocateAndInitializeSid"}
     THEN {} ELSE {"pEveryoneSid"})
    \cup {"pSD", "pNewDACL", "pAbs"}

ByMaskHeld(h, fail) ==
    [k \in Resources |->
        h[k] + (IF k \in ByMaskAcquired(fail) \ ByMaskReleased(fail) THEN 1 ELSE 0)]

-----------------------------------------------------------------------------
(* A run of Chmod, lines 112-166 *)

EXIT_SUCCESS == 0
EXIT_FAILURE == 1

Frame(path) == [path |-> path, phase |-> "enter", idx |-> 0]
Top == stack[Len(stack)]
Pop == SubSeq(stack, 1, Len(stack) - 1)
SetTop(f) == [stack EXCEPT ![Len(stack)] = f]

Call(path) == [path |-> path, mode |-> {}, curr |-> 0]

InitRun(invocations, strings, fsStates) ==
    /\ pc = "Chmod"
    /\ argv \in invocations
    /\ modeString \in strings
    /\ fs \in fsStates
    /\ ps = <<>>
    /\ unixAccessMask = {}
    /\ actions = <<>>
    /\ recursive = FALSE
    /\ stack = <<>>
    /\ cfm = <<>>
    /\ result = FALSE
    /\ applied = <<>>
    /\ exitCode = EXIT_FAILURE
    /\ trace = <<>>
    /\ held = NoneHeld
    /\ IdleCompute
    /\ IdleAcl

\* lines 129-135 and ParseCommandLineArguments, lines 479-536.  A failed
\* ParseMode has freed its list, and Chmod returns without reading it.
ParseCommandLineArguments ==
    /\ pc = "Chmod"
    /\ \E infoOk \in BOOLEAN, failAlloc \in 0..Len(modeString) :
          LET optOk == argv.opt = "none" \/ (argv.opt = "-R" /\ infoOk)
              oct   == ParseOctalMode(modeString)
              sym   == ParseMode(modeString, failAlloc)
              list  == IF optOk /\ ~oct.ret /\ sym.ret THEN sym.actions ELSE <<>>
          IN /\ recursive' = (argv.opt = "-R" /\ infoOk /\ IsDirFileInfo(argv.path))
             /\ unixAccessMask' = IF optOk /\ oct.ret THEN oct.mask ELSE unixAccessMask
             /\ actions' = list
             /\ held' = Acquire(held, "action", Len(list))
             /\ trace' = IF argv.opt = "-R"
                         THEN <<Native("GetFileInformationByName",
                                       "ParseCommandLineArguments", argv.path, infoOk)>>
                         ELSE <<>>
             /\ pc' = IF optOk /\ (oct.ret \/ sym.ret) THEN "ConvertToLongPath"
                      ELSE "exit"
    /\ UNCHANGED <<modeString, ps, argv, fs, stack, cfm, result, applied, exitCode,
                   computeVars, aclVars>>

\* lines 139-159: the long path, then the call of ChangeFileMode or of
\* ChangeFileModeRecursively
ConvertToLongPath ==
    /\ pc = "ConvertToLongPath"
    /\ \E ok \in BOOLEAN :
          IF ~ok
          THEN pc' = "ChmodEnd" /\ UNCHANGED <<cfm, stack, held>>
          ELSE /\ held' = Acquire(held, "longPathName", 1)
               /\ IF ~recursive
                  THEN pc' = "ChangeFileMode" /\ cfm' = Call(argv.path)
                       /\ UNCHANGED stack
                  ELSE pc' = "Recursive" /\ stack' = <<Frame(argv.path)>>
                       /\ UNCHANGED cfm
    /\ UNCHANGED <<parseVars, argv, fs, recursive, result, applied, exitCode, trace,
                   computeVars, aclVars>>

\* ChangeFileMode without the test of line 184
ChangeFileMode_AlwaysByActions ==
    /\ pc = "ChangeFileMode"
    /\ pc' = "ConvertActionsToMask"
    /\ UNCHANGED <<parseVars, argv, fs, recursive, stack, cfm, result, applied,
                   exitCode, trace, held, computeVars, aclVars>>

\* ChangeFileMode, lines 181-188
ChangeFileMode ==
    /\ pc = "ChangeFileMode"
    /\ IF actions # <<>>
       THEN pc' = "ConvertActionsToMask" /\ UNCHANGED cfm
       ELSE pc' = "ChangeFileModeByMask" /\ cfm' = [cfm EXCEPT !.mode = unixAccessMask]
    /\ UNCHANGED <<parseVars, argv, fs, recursive, stack, result, applied, exitCode,
                   trace, held, computeVars, aclVars>>

\* ConvertActionsToMask, lines 669-700: the query of the object's state
ConvertActionsToMask ==
    /\ pc = "ConvertActionsToMask"
    /\ \E fail \in {"none", "GetFileInformationByName", "FindFileOwnerAndPermission"} :
          /\ trace' = trace
                \o <<Native("GetFileInformationByName", "ConvertActionsToMask",
                            cfm.path, fail # "GetFileInformationByName")>>
                \o IF fail = "GetFileInformationByName" THEN <<>>
                   ELSE <<Native("FindFileOwnerAndPermission", "ConvertActionsToMask",
                                 cfm.path, fail = "none")>>
          /\ IF fail = "none"
             THEN /\ cfm' = [cfm EXCEPT !.mode = CurrentMode(fs, cfm.path), !.curr = 1]
                  /\ pc' = "ConvertLoop"
                  /\ UNCHANGED result
             ELSE /\ result' = FALSE
                  /\ pc' = "Returned"
                  /\ UNCHANGED cfm
    /\ UNCHANGED <<parseVars, argv, fs, recursive, stack, applied, exitCode, held,
                   computeVars, aclVars>>

\* lines 702-705: one iteration
ConvertIterate ==
    /\ pc = "ConvertLoop"
    /\ cfm.curr <= Len(actions)
    /\ cfm' = [cfm EXCEPT !.mode = FoldStep(cfm.mode, actions[cfm.curr]),
                          !.curr = @ + 1]
    /\ UNCHANGED <<pc, parseVars, argv, fs, recursive, stack, result, applied,
                   exitCode, trace, held, computeVars, aclVars>>

\* lines 707-708 and 729-730: the mask is the mode, and is applied
ConvertReturn ==
    /\ pc = "ConvertLoop"
    /\ cfm.curr > Len(actions)
    /\ pc' = "ChangeFileModeByMask"
    /\ UNCHANGED <<parseVars, argv, fs, recursive, stack, cfm, result, applied,
                   exitCode, trace, held, computeVars, aclVars>>

\* ChangeFileModeByMask(path, mask)
CallChangeFileModeByMask ==
    /\ pc = "ChangeFileModeByMask"
    /\ \E fail \in ByMaskNativeCalls \cup {"none"} :
          LET r == ChangeFileModeByMask(fs, cfm.path, cfm.mode, fail)
          IN /\ fs' = r.fs
             /\ result' = r.ret
             /\ applied' = IF r.ret THEN Append(applied, cfm.path) ELSE applied
             /\ trace' = trace \o ByMaskTrace(cfm.path, fail)
             /\ held' = ByMaskHeld(held, fail)
    /\ pc' = "Returned"
    /\ UNCHANGED <<parseVars, argv, recursive, stack, cfm, exitCode,
                   computeVars, aclVars>>

\* ChangeFileMode returns: to Chmod (lines 148-151), or to the call of
\* ChangeFileModeRecursively that made it, which returns the same value: at
\* once for a non-directory (lines 228-235), through the LocalFree(dir) of
\* line 309 for a directory (lines 301-311)
ChangeFileModeReturn ==
    /\ pc = "Returned"
    /\ cfm' = <<>>
    /\ IF stack = <<>>
       THEN /\ exitCode' = IF result THEN EXIT_SUCCESS ELSE EXIT_FAILURE
            /\ pc' = "ChmodEnd"
            /\ UNCHANGED <<stack, held>>
       ELSE /\ stack' = Pop
            /\ held' = IF Top.phase = "self" THEN Release(held, "dir", 1) ELSE held
            /\ pc' = "RecReturned"
            /\ UNCHANGED exitCode
    /\ UNCHANGED <<parseVars, argv, fs, recursive, result, applied, trace,
                   computeVars, aclVars>>

\* ChangeFileModeRecursively, lines 220-236: a non-directory is changed at once
RecEnter ==
    /\ pc = "Recursive"
    /\ Top.phase = "enter"
    /\ \E infoOk \in BOOLEAN :
          /\ trace' = Append(trace, Native("GetFileInformationByName",
                                           "ChangeFileModeRecursively", Top.path, infoOk))
          /\ IF ~infoOk
             THEN /\ stack' = Pop /\ result' = FALSE /\ pc' = "RecReturned"
                  /\ UNCHANGED cfm
             ELSE IF ~IsDirFileInfo(Top.path)
             THEN /\ stack' = SetTop([Top EXCEPT !.phase = "leaf"])
                  /\ cfm' = Call(Top.path)
                  /\ pc' = "ChangeFileMode"
                  /\ UNCHANGED result
             ELSE /\ stack' = SetTop([Top EXCEPT !.phase = "open"])
                  /\ UNCHANGED <<pc, cfm, result>>
    /\ UNCHANGED <<parseVars, argv, fs, recursive, applied, exitCode, held,
                   computeVars, aclVars>>

\* lines 241-264: the search pattern and FindFirstFile.  Whatever fails, the
\* pattern is freed (line 309) or was never allocated; the handle of a
\* successful FindFirstFile is kept.
RecOpen ==
    /\ pc = "Recursive"
    /\ Top.phase = "open"
    /\ \E fail \in {"none", "StringCchLengthW", "LocalAlloc(dir)", "StringCchCopyW",
                    "FindFirstFile"} :
          /\ trace' = IF fail \in {"none", "FindFirstFile"}
                      THEN Append(trace, Native("FindFirstFile",
                                                "ChangeFileModeRecursively", Top.path,
                                                fail = "none"))
                      ELSE trace
          /\ IF fail = "none"
             THEN /\ stack' = SetTop([Top EXCEPT !.phase = "loop", !.idx = 1])
                  /\ held' = Acquire(Acquire(held, "dir", 1), "hFind", 1)
                  /\ UNCHANGED <<pc, result>>
             ELSE /\ stack' = Pop /\ result' = FALSE /\ pc' = "RecReturned"
                  /\ UNCHANGED held
    /\ UNCHANGED <<parseVars, argv, fs, recursive, cfm, applied, exitCode,
                   computeVars, aclVars>>

\* line 299 with a loop that ends after its first entry
FindNextFileW_EndsLoop(f, err) ==
    [f EXCEPT !.idx = Len(Entries(f.path)) + 1]

\* while (FindNextFileW(hFind, &ffd)), line 299: the next entry; the loop ends
\* when there is none, and also when the call fails (err) with entries left
FindNextFileW(f, err) ==
    [f EXCEPT !.idx = IF err THEN Len(Entries(f.path)) + 1 ELSE @ + 1]

FindNextFileWTrace(f, err) ==
    Append(trace, Native("FindNextFileW", "ChangeFileModeRecursively", f.path, ~err))

\* lines 271-273 and 299: "." and ".." are skipped
RecSkip ==
    /\ pc = "Recursive"
    /\ Top.phase = "loop"
    /\ Top.idx <= Len(Entries(Top.path))
    /\ Entries(Top.path)[Top.idx] \in {".", ".."}
    /\ \E err \in BOOLEAN :
          /\ err => Top.idx < Len(Entries(Top.path))
          /\ stack' = SetTop(FindNextFileW(Top, err))
          /\ trace' = FindNextFileWTrace(Top, err)
    /\ UNCHANGED <<pc, parseVars, argv, fs, recursive, cfm, result, applied, exitCode,
                   held, computeVars, aclVars>>

\* lines 275-291: the child's path, and the recursive call on it
RecDescend ==
    /\ pc = "Recursive"
    /\ Top.phase = "loop"
    /\ Top.idx <= Len(Entries(Top.path))
    /\ Entries(Top.path)[Top.idx] \notin {".", ".."}
    /\ \E fail \in {"none", "LocalAlloc(filename)", "StringCchCopyW"} :
          IF fail = "none"
          THEN /\ stack' = Append(stack, Frame(Entries(Top.path)[Top.idx]))
               /\ held' = Acquire(held, "filename", 1)
               /\ UNCHANGED <<pc, result>>
          ELSE /\ stack' = Pop /\ result' = FALSE /\ pc' = "RecReturned"
               /\ held' = Release(held, "dir", 1)
    /\ UNCHANGED <<parseVars, argv, fs, recursive, cfm, applied, exitCode, trace,
                   computeVars, aclVars>>

\* lines 299-304: the loop has ended; the directory itself
RecSelf ==
    /\ pc = "Recursive"
    /\ Top.phase = "loop"
    /\ Top.idx > Len(Entries(Top.path))
    /\ stack' = SetTop([Top EXCEPT !.phase = "self"])
    /\ cfm' = Call(Top.path)
    /\ pc' = "ChangeFileMode"
    /\ UNCHANGED <<parseVars, argv, fs, recursive, result, applied, exitCode, trace,
                   held, computeVars, aclVars>>

\* lines 291-299 with a loop that goes on after a child has failed
RecReturn_GoesOn ==
    /\ pc = "RecReturned"
    /\ IF stack = <<>>
       THEN /\ exitCode' = IF result THEN EXIT_SUCCESS ELSE EXIT_FAILURE
            /\ pc' = "ChmodEnd"
            /\ UNCHANGED <<stack, trace, held>>
       ELSE /\ stack' = SetTop(FindNextFileW(Top, FALSE))
            /\ trace' = FindNextFileWTrace(Top, FALSE)
            /\ held' = Release(held, "filename", 1)
            /\ pc' = "Recursive"
            /\ UNCHANGED exitCode
    /\ UNCHANGED <<parseVars, argv, fs, recursive, cfm, result, applied,
                   computeVars, aclVars>>

\* a call of ChangeFileModeRecursively has returned: to Chmod (lines 155-158),
\* or into the loop of its parent (lines 291-299), which frees the child's
\* path and goes on, or gives up and frees its pattern (line 309)
RecReturn ==
    /\ pc = "RecReturned"
    /\ IF stack = <<>>
       THEN /\ exitCode' = IF result THEN EXIT_SUCCESS ELSE EXIT_FAILURE
            /\ pc' = "ChmodEnd"
            /\ UNCHANGED <<stack, trace, held>>
       ELSE IF result
       THEN /\ \E err \in BOOLEAN :
                  /\ err => Top.idx < Len(Entries(Top.path))
                  /\ stack' = SetTop(FindNextFileW(Top, err))
                  /\ trace' = FindNextFileWTrace(Top, err)
            /\ held' = Release(held, "filename", 1)
            /\ pc' = "Recursive"
            /\ UNCHANGED exitCode
       ELSE /\ stack' = Pop
            /\ held' = Release(Release(held, "filename", 1), "dir", 1)
            /\ UNCHANGED <<pc, exitCode, trace>>
    /\ UNCHANGED <<parseVars, argv, fs, recursive, cfm, result, applied,
                   computeVars, aclVars>>

\* lines 161-165: FreeActions frees every node, and the long path is freed
ChmodEnd ==
    /\ pc = "ChmodEnd"
    /\ held' = [held EXCEPT !["action"] = @ - Len(actions), !["longPathName"] = 0]
    /\ pc' = "exit"
    /\ UNCHANGED <<parseVars, argv, fs, recursive, stack, cfm, result, applied,
                   exitCode, trace, computeVars, aclVars>>

-----------------------------------------------------------------------------
(* Chmod without -R on one object in every 9-bit mode, for the mode        *)
(* strings the specification names                                        *)

BaseMode == Bits(493)

FoldTargets == {"d/f", "d/e"}

FoldFs ==
    {[o \in Objects |-> ObjectWith(IF o \in FoldTargets THEN m ELSE BaseMode)] :
        m \in ModeBits}

InitFold == InitRun([opt : {"none"}, path : FoldTargets], Specimens, FoldFs)

NextFold ==
    \/ ParseCommandLineArguments
    \/ ConvertToLongPath
    \/ ChangeFileMode
    \/ ConvertActionsToMask
    \/ ConvertIterate
    \/ ConvertReturn
    \/ CallChangeFileModeByMask
    \/ ChangeFileModeReturn
    \/ ChmodEnd

SpecFold == InitFold /\ [][NextFold]_vars

-----------------------------------------------------------------------------
(* Chmod with and without -R on the directory tree and on a file, the      *)
(* objects in sample modes                                                 *)

ModeSamples == {Bits(420), Bits(489)}

WalkStrings ==
    { <<"u", "+", "r", "-", "w">>, <<"a", "=", "r", ",", "a", "+", "X">>,
      <<"g", "o", "-", "w">>, <<"a", "+", "r", "X">>, <<"0", "7", "5", "5">>,
      <<"u", "+">>, <<"r">> }

InitWalk ==
    InitRun([opt : {"none", "-R", "-x"}, path : {RootDir, "d/f"}], WalkStrings,
            [Objects -> {ObjectWith(m) : m \in ModeSamples}])

NextWalk ==
    \/ ParseCommandLineArguments
    \/ ConvertToLongPath
    \/ ChangeFileMode
    \/ ConvertActionsToMask
    \/ ConvertIterate
    \/ ConvertReturn
    \/ CallChangeFileModeByMask
    \/ ChangeFileModeReturn
    \/ RecEnter
    \/ RecOpen
    \/ RecSkip
    \/ RecDescend
    \/ RecSelf
    \/ RecReturn
    \/ ChmodEnd

SpecWalk == InitWalk /\ [][NextWalk]_vars

-----------------------------------------------------------------------------
(* Claims on a run of Chmod *)

\* the nine permission bits of a mode
PermissionBits(mode) == And(mode, CHMOD_WHO_ALL)

\* the mask is computed and about to be applied
MaskComputed == pc = "ChangeFileModeByMask" /\ actions # <<>>

\* C2: parsing "u=rwx,g=rx,o=" and folding its actions in order through
\* ComputeNewMode yields the final mask 0750, whatever the object's current
\* mode is.
C2_FinalMask0750 ==
    (MaskComputed
       /\ modeString = <<"u", "=", "r", "w", "x", ",", "g", "=", "r", "x", ",", "o", "=">>)
    => PermissionBits(cfm.mode) = {8, 7, 6, 5, 3}

\* C4: end to end, "u+x" on a file in mode 0644 yields 0744, "go-w" on a file
\* in mode 0666 yields 0644, and "a=r" on a file in mode 0777 yields 0444.
C4_EndToEnd ==
    (MaskComputed /\ cfm.path = "d/f")
    => /\ (modeString = <<"u", "+", "x">> /\ fs["d/f"].mode = {8, 7, 5, 2})
          => cfm.mode = {8, 7, 6, 5, 2}
       /\ (modeString = <<"g", "o", "-", "w">> /\ fs["d/f"].mode = {8, 7, 5, 4, 2, 1})
          => cfm.mode = {8, 7, 5, 2}
       /\ (modeString = <<"a", "=", "r">> /\ fs["d/f"].mode = 0..8)
          => cfm.mode = {8, 5, 2}

\* C4: "go-w" has been folded over the file in mode 0666
C4_Witness ==
    /\ MaskComputed
    /\ cfm.path = "d/f"
    /\ modeString = <<"g", "o", "-", "w">>
    /\ fs["d/f"].mode = {8, 7, 5, 4, 2, 1}
    /\ cfm.mode = {8, 7, 5, 2}

\* the fold of ComputeNewMode over a list, from the left
RECURSIVE FoldLeft(_, _)
FoldLeft(list, mode) ==
    IF list = <<>> THEN mode
    ELSE FoldLeft(Tail(list),
                  ComputeNewMode(mode, Head(list).who, Head(list).op,
                                 Head(list).perm, Head(list).ref))

\* an object's own mode bits and directory flag
OwnState(path) ==
    fs[path].mode \cup (IF path \in Directories THEN DirFlag ELSE {})

\* C6: the mask ConvertActionsToMask returns for a path is the left-to-right
\* fold of ComputeNewMode over the action list, starting from that object's
\* own current mode bits and directory flag; so it is for every object of a
\* recursive run.
C6_FoldFromOwnState ==
    MaskComputed => cfm.mode = FoldLeft(actions, OwnState(cfm.path))

\* C6: in a recursive run that has changed the file d/f, the mask of the
\* directory d/s, whose state is neither that of its parent nor that of the
\* sibling changed before it, is computed over a list of two actions
C6_Witness ==
    /\ MaskComputed
    /\ recursive
    /\ Len(actions) = 2
    /\ Len(stack) = 2
    /\ cfm.path = "d/s"
    /\ applied # <<>>
    /\ applied[1] = "d/f"
    /\ fs["d/s"].mode # fs[RootDir].mode
    /\ fs["d/s"].mode # fs["d/f"].mode
    /\ cfm.mode # FoldLeft(actions, OwnState(RootDir))

\* the run has queried the current state of path (lines 679-693)
StateQueried(path) ==
    \E i \in 1..Len(trace) :
        /\ trace[i].by = "ConvertActionsToMask"
        /\ trace[i].path = path

\* C12: after a successful parse either the mode was octal and the list is
\* empty, or it was symbolic and the list is non-empty; ChangeFileMode applies
\* by actions iff the list is non-empty, so that an octal mode is applied as
\* the parsed mask, the object's current mode not being consulted.
C12_OctalOrActions ==
    /\ pc \notin {"Chmod", "exit"}
          => \/ /\ OctalCheck(modeString)
                /\ actions = <<>>
                /\ unixAccessMask = MaskOfLastThree(modeString)
             \/ /\ ~OctalCheck(modeString)
                /\ actions # <<>>
                /\ unixAccessMask = {}
    /\ pc \in {"ConvertActionsToMask", "ConvertLoop"} => actions # <<>>
    /\ pc = "ChangeFileModeByMask"
          => IF actions = <<>>
             THEN cfm.mode = unixAccessMask /\ ~StateQueried(cfm.path)
             ELSE StateQueried(cfm.path)

\* C12 witness: "0755" is about to be applied as 0755 to the directory d/e in
\* mode 0000, nothing having been asked about d/e.
C12_Witness ==
    /\ pc = "ChangeFileModeByMask"
    /\ modeString = <<"0", "7", "5", "5">>
    /\ cfm.path = "d/e"
    /\ fs["d/e"].mode = {}
    /\ cfm.mode = {8, 7, 6, 5, 3, 2, 0}
    /\ actions = <<>>
    /\ trace = <<>>

\* the objects below a directory, at any depth
RECURSIVE Descendants(_)
Descendants(d) ==
    UNION {{Children[d][i]} \cup Descendants(Children[d][i]) : i \in 1..Len(Children[d])}

\* the places of an object in the sequence of the applications
PlacesOf(o) == {i \in 1..Len(applied) : applied[i] = o}

\* no native call on the file system has failed so far
NoCallFailed == \A i \in 1..Len(trace) : trace[i].ok

\* C15: in a recursive run in which every step succeeds the mode is applied
\* exactly once to every object of the tree, and to a directory after it has
\* been applied to every one of its descendants; so f and the empty directory
\* e are applied before the directory d that holds them.
C15_PostOrderOnce ==
    (recursive /\ NoCallFailed)
        => /\ \A o \in Objects : Cardinality(PlacesOf(o)) <= 1
           /\ \A d \in Objects : \A i \in PlacesOf(d) :
                 \A o \in Descendants(d) : \E j \in PlacesOf(o) : j < i
           /\ (pc = "exit" /\ exitCode = EXIT_SUCCESS)
                 => \A o \in {argv.path} \cup Descendants(argv.path) :
                       Cardinality(PlacesOf(o)) = 1

\* C15 witness: the recursive run on d has succeeded, and has applied the
\* mode to d/f, d/e, d/s/g, d/s and d in this order.
C15_Witness ==
    /\ pc = "exit"
    /\ recursive
    /\ NoCallFailed
    /\ exitCode = EXIT_SUCCESS
    /\ applied = <<"d/f", "d/e", "d/s/g", "d/s", "d">>

\* the objects ChangeFileModeRecursively has been called on
Visited ==
    {trace[i].path : i \in {k \in 1..Len(trace) :
                               /\ trace[k].by = "ChangeFileModeRecursively"
                               /\ trace[k].call = "GetFileInformationByName"}}

Applied == {applied[i] : i \in 1..Len(applied)}

\* the entries of the parent's directory after the one of o
LaterSiblings(o) ==
    UNION {{Children[d][j] : j \in {k \in 1..Len(Children[d]) :
                                       \E i \in 1..(k - 1) : Children[d][i] = o}}
           : d \in Directories}

\* a failure is on its way up, or has arrived, in a recursive run
WalkFailed ==
    /\ recursive
    /\ pc \in {"RecReturned", "ChmodEnd", "exit"}
    /\ ~result
    /\ Visited # {}

\* C16: when, in a recursive run, a child at any depth fails, the calls that
\* have not applied their object are the failing one and its ancestors: none
\* of their later siblings is visited and none of them is applied afterwards;
\* the failure is the result of the run; an object already applied keeps the
\* list written to it.
C16_FailureAbortsWalk ==
    /\ [](WalkFailed
            => /\ Visited \ Applied # {}
               /\ \A o, q \in Visited \ Applied :
                     o = q \/ o \in Descendants(q) \/ q \in Descendants(o)
               /\ \A o \in Visited \ Applied : LaterSiblings(o) \cap Visited = {}
               /\ argv.path \notin Applied
               /\ exitCode = EXIT_FAILURE)
    /\ [][WalkFailed => (WalkFailed' /\ fs' = fs /\ applied' = applied)]_vars
    /\ [][\A o \in Applied : fs'[o] = fs[o]]_vars

\* C16 witness: the recursive run of "0755" on d has failed at d/e, after d/f
\* was changed to 0755: d/s is not visited, d is not applied, d/f keeps 0755.
C16_Witness ==
    /\ pc = "exit"
    /\ recursive
    /\ exitCode = EXIT_FAILURE
    /\ modeString = <<"0", "7", "5", "5">>
    /\ applied = <<"d/f">>
    /\ Visited = {"d", "d/f", "d/e"}
    /\ fs["d/f"] = ObjectWith({8, 7, 6, 5, 3, 2, 0})
    /\ fs["d"].mode # {8, 7, 6, 5, 3, 2, 0}

\* C17: applying a mode to one object is all or nothing: when a step fails
\* (the query of the current state, the read of the security descriptor, its
\* conversion, the construction of the new list, the write) ChangeFileMode
\* returns FALSE and the object's list is what it was before the call; when
\* it returns TRUE the object's list is the complete new list.
C17_AllOrNothing ==
    [][/\ pc' # "Returned" => fs' = fs
       /\ (pc' = "Returned" /\ ~result') => fs' = fs
       /\ (pc' = "Returned" /\ result')
             => /\ fs'[cfm.path].dacl = DaclOf(cfm.mode)
                /\ Len(AllowEntries(fs'[cfm.path].dacl)) = 3
                /\ \A o \in Objects \ {cfm.path} : fs'[o] = fs[o]]_vars

\* C17 witness: SetFileSecurity has failed, ChangeFileMode returns FALSE, and
\* the object has the list of its old mode, which is not the new one.
C17_Witness ==
    /\ pc = "Returned"
    /\ ~result
    /\ trace # <<>>
    /\ trace[Len(trace)] = Native("SetFileSecurity", "ChangeFileModeByMask", cfm.path, FALSE)
    /\ fs[cfm.path].dacl # DaclOf(cfm.mode)
    /\ fs[cfm.path] = ObjectWith(fs[cfm.path].mode)

\* the MODE argument is neither an octal mode nor in the symbolic grammar
MalformedMode == ~OctalCheck(modeString) /\ ~SymbolicGrammar(modeString)

\* C18: for an invocation whose MODE string is malformed, with or without -R,
\* the failure is reported before any native call is attempted: the run makes
\* no file-metadata query, no permission lookup and no read or write of a
\* security descriptor.
C18_MalformedModeNoNativeCall ==
    MalformedMode => trace = <<>>

\* the objects the invocation is about: the path, and with -R on a directory
\* every object of its tree
InScope ==
    IF recursive THEN {argv.path} \cup Descendants(argv.path) ELSE {argv.path}

\* C19: Chmod returns 0 if and only if the parse of the arguments, the
\* conversion of the path and the application of the mode to every object in
\* scope have all succeeded.
C19_ExitCodeZeroIffAllApplied ==
    pc = "exit"
        => (exitCode = EXIT_SUCCESS
              <=> (Applied = InScope /\ Len(applied) = Cardinality(InScope)))

\* what Chmod itself holds while it calls: the list and the long path
HeldByChmod == {"action", "longPathName"}

\* C20: every resource acquired during a run is released on every exit path:
\* when Chmod returns the run holds no resource, and when the outermost call
\* of ChangeFileModeRecursively returns it holds only what Chmod holds.
C20_NothingHeldOnReturn ==
    /\ pc = "exit" => \A k \in Resources : held[k] = 0
    /\ (pc = "RecReturned" /\ stack = <<>>)
          => \A k \in Resources \ HeldByChmod : held[k] = 0

\* the invocation has -R, its path is not a directory, and the query of line
\* 505 has succeeded
RecursiveOnFile ==
    /\ argv.opt = "-R"
    /\ argv.path \notin Directories
    /\ pc # "Chmod"
    /\ trace # <<>>
    /\ trace[1].ok

\* the invocation has no option and its path is not a directory
PlainOnFile == argv.opt = "none" /\ argv.path \notin Directories /\ pc # "Chmod"

\* the course of a run on the one object of its path: the walk is never
\* entered, nothing but the path is asked about or written, and the run
\* succeeds exactly when it has applied the mode to the path, once
SingleObjectRun ==
    /\ ~recursive
    /\ stack = <<>>
    /\ pc \notin {"Recursive", "RecReturned"}
    /\ Visited = {}
    /\ \A i \in 1..Len(trace) :
          trace[i].by # "ParseCommandLineArguments"
             => (trace[i].path = argv.path /\ trace[i].by # "ChangeFileModeRecursively")
    /\ \A i \in 1..Len(applied) : applied[i] = argv.path
    /\ pc = "ConvertToLongPath"
          => (OctalCheck(modeString) \/ ParseMode(modeString, 0).ret)
    /\ pc = "ChangeFileModeByMask"
          => cfm.mode = IF actions = <<>> THEN unixAccessMask
                        ELSE FoldLeft(actions, OwnState(argv.path))
    /\ pc = "exit" => (exitCode = EXIT_SUCCESS <=> applied = <<argv.path>>)

\* C21: when -R is given and PATH is not a directory the flag is ignored:
\* the invocation is not rejected, the mode is applied to PATH alone, and the
\* run takes the course, to the same outcome, of the run without -R.
C21_RecursiveOnFileIgnored ==
    /\ [](RecursiveOnFile => SingleObjectRun)
    /\ [](PlainOnFile => SingleObjectRun)
    /\ [][(RecursiveOnFile \/ PlainOnFile)
            => \A o \in Objects \ {argv.path} : fs'[o] = fs[o]]_vars

\* C21 witness: chmod -R 0755 d/f has ended with success, having asked once
\* whether d/f is a directory and applied 0755 to d/f alone.
C21_Witness ==
    /\ pc = "exit"
    /\ argv = [opt |-> "-R", path |-> "d/f"]
    /\ modeString = <<"0", "7", "5", "5">>
    /\ exitCode = EXIT_SUCCESS
    /\ applied = <<"d/f">>
    /\ fs["d/f"] = ObjectWith({8, 7, 6, 5, 3, 2, 0})
    /\ trace[1] = Native("GetFileInformationByName", "ParseCommandLineArguments",
                         "d/f", TRUE)

\* C22: applying an action a second time to the state the first application
\* gave changes nothing, for every old state and every action.
C22_Idempotent ==
    pc = "computed"
       => ComputeNewMode(ret, call.who, call.op, call.perm, call.ref) = ret

\* C22 witness: an action has changed the state of a directory under the
\* conditional execute: o+wX on 040750 gave 040753.
C22_Witness ==
    /\ pc = "computed"
    /\ call.oldMode = Or(Bits(488), DirFlag)
    /\ call.who = CHMOD_WHO_OTHER
    /\ call.op = CHMOD_OP_PLUS
    /\ call.perm = Or(CHMOD_PERM_W, CHMOD_PERM_LX)
    /\ call.ref = CHMOD_WHO_NONE
    /\ ret = Or(Bits(491), DirFlag)

\* the loop of ConvertActionsToMask is about to call ComputeNewMode on the
\* action at curr
ComputeNewModeCalled == pc = "ConvertLoop" /\ cfm.curr <= Len(actions)

\* C23: on every call of ComputeNewMode made for an action of a successfully
\* parsed list the two assertions hold: the operator is one of '=', '+', '-'
\* and the reference class is exactly one of group, user, other.
C23_AssertionsHold ==
    ComputeNewModeCalled
       => ComputeNewModeAsserts(actions[cfm.curr].op, actions[cfm.curr].ref)

\* C24: while a list is folded over the state of a directory every action
\* keeps the is-directory flag, so that X contributes execute at every
\* position of the list: 'a=r,a+X' on a directory ends with execute for all
\* classes.
C24_DirectoryFlagKept ==
    /\ (pc = "ConvertLoop" /\ cfm.path \in Directories) => DirFlag \subseteq cfm.mode
    /\ (MaskComputed /\ cfm.path \in Directories
          /\ modeString = <<"a", "=", "r", ",", "a", "+", "X">>)
          => ExecBits \subseteq cfm.mode

\* C25: for '+' and '-' the result is the old state with the mask, restricted
\* to the who bits, set or cleared: the bits outside who and the directory
\* flag are those of the old state.
C25_PlusMinusFrame ==
    (pc = "computed" /\ call.op \in {CHMOD_OP_PLUS, CHMOD_OP_MINUS})
       => LET mask == And(Or(PermMask(call.oldMode, call.perm),
                             And(call.oldMode, call.ref)), call.who)
          IN /\ call.op = CHMOD_OP_PLUS => ret = Or(call.oldMode, mask)
             /\ call.op = CHMOD_OP_MINUS => ret = And(call.oldMode, Not(mask))
             /\ And(ret, Not(call.who)) = And(call.oldMode, Not(call.who))
             /\ And(ret, UX_DIRECTORY) = And(call.oldMode, UX_DIRECTORY)

\* C25 witness: g-rwx on the directory state 040777 gave 040707.
C25_Witness ==
    /\ pc = "computed"
    /\ call.oldMode = Or(Bits(511), UX_DIRECTORY)
    /\ call.ref = CHMOD_WHO_NONE
    /\ call.who = CHMOD_WHO_GROUP
    /\ call.op = CHMOD_OP_MINUS
    /\ call.perm = Or(Or(CHMOD_PERM_R, CHMOD_PERM_W), CHMOD_PERM_X)
    /\ ret = Or(Bits(455), UX_DIRECTORY)

\* the SIDs whose entries apply to a requester of class c: to the owner (2)
\* the owner, group and everyone entries, to a group member (1) the group and
\* everyone entries, to anyone else (0) the everyone entry
AppliesTo(c) ==
    IF c = 2 THEN {"Owner", "Group", EveryoneSid}
    ELSE IF c = 1 THEN {"Group", EveryoneSid}
    ELSE {EveryoneSid}

\* the positions of the entries of d that apply to class c and name right j
Matching(d, c, j) ==
    {i \in 1..Len(d) : d[i].sid \in AppliesTo(c) /\ RightOf(j) \subseteq d[i].mask}

\* first-match evaluation: the first matching entry is an allow entry
Granted(d, c, j) ==
    /\ Matching(d, c, j) # {}
    /\ LET first == CHOOSE i \in Matching(d, c, j) :
                       \A k \in Matching(d, c, j) : i <= k
       IN d[first].type = "allow"

\* C26: for every 9-bit mask, the list evaluated in the emitted order with
\* first-match semantics per right grants the owner exactly the rights of the
\* owner bits, a member of the group exactly the rights of the group bits,
\* and anyone else exactly the rights of the other bits.
C26_EffectiveAccess ==
    (pc = "dacl_done" /\ newDacl.ret)
        => \A c \in 0..2 : \A j \in 0..2 :
              Granted(newDacl.dacl, c, j) <=> (3 * c + j) \in unixMask

\* C26 witness: for mask 0247 the list has both deny entries; the owner is
\* granted write alone, although the group and everyone entries allow more,
\* and a group member read alone.
C26_Witness ==
    /\ pc = "dacl_done"
    /\ newDacl.ret
    /\ unixMask = {7, 5, 2, 1, 0}
    /\ Len(newDacl.dacl) = 5
    /\ Granted(newDacl.dacl, 2, 1)
    /\ ~Granted(newDacl.dacl, 2, 2)
    /\ ~Granted(newDacl.dacl, 2, 0)
    /\ Granted(newDacl.dacl, 1, 2)
    /\ ~Granted(newDacl.dacl, 1, 1)
    /\ Granted(newDacl.dacl, 0, 0)

\* the position of a state in the order WHO, OP, PERM, REF, END
StateOrder(state) ==
    CASE state = "WHO"  -> 0
      [] state = "OP"   -> 1
      [] state = "PERM" -> 2
      [] state = "REF"  -> 3
      [] state = "END"  -> 4

\* the position of a state among the iterations that look at one character:
\* before an operator character PERM, REF, END come first and hand over to
\* WHO and OP, which consumes it
OrderAt(state, c) ==
    IF c \in OpLetters THEN (StateOrder(state) + 3) % 5 ELSE StateOrder(state)

\* a bound on the iterations left: five for each character not yet consumed,
\* the terminator included, less those already spent on the current one
IterationsLeft(s, p) == 5 * (Len(s) + 1 - p.i) - OrderAt(p.state, At(s, p.i))

\* an iteration of the loop of ParseMode is being taken
Iterates == pc = "symbolic" /\ ps' # ps

\* C27: ParseMode terminates on every finite string.  Every iteration
\* consumes a character or moves the state strictly forward in the order WHO,
\* OP, PERM, REF, END; END goes back to WHO only having consumed a comma or
\* the terminator, or before an operator character, which OP then consumes;
\* success is returned only after the terminator was consumed in the END
\* state, and failure only from the OP or the END state.
C27_ParseModeTerminates ==
    /\ [][Iterates
            => LET c == At(modeString, ps.i)
               IN /\ ps'.ret = "FALSE" => ps.state \in {"OP", "END"}
                  /\ ps'.ret = "running"
                        => /\ \/ ps'.i = ps.i + 1
                              \/ /\ ps'.i = ps.i
                                 /\ StateOrder(ps'.state) > StateOrder(ps.state)
                              \/ /\ ps'.i = ps.i
                                 /\ ps.state = "END"
                                 /\ ps'.state = "WHO"
                                 /\ c \in OpLetters
                           /\ (ps.state = "END" /\ ps'.state = "WHO" /\ ps'.i = ps.i + 1)
                                 => c \in {NUL, ","}
                           /\ (ps.state = "WHO" /\ c \in OpLetters)
                                 => (ps'.state = "OP" /\ ps'.i = ps.i)
                           /\ ps.state = "OP" => (c \in OpLetters /\ ps'.i = ps.i + 1)
                           /\ ps'.i = Len(modeString) + 1
                                 => (ps.state = "END" /\ c = NUL)
                           /\ IterationsLeft(modeString, ps') < IterationsLeft(modeString, ps)
                           /\ IterationsLeft(modeString, ps') >= 0]_vars
    /\ [][(pc = "symbolic" /\ pc' = "parsed")
            => (ps.ret = "running" /\ ps.i = Len(modeString) + 1)]_vars
    /\ <>(pc \in {"parsed", "failed"})

\* C27 witness: the parse of 'g-w+x,au=r' has returned success with three
\* actions, the END state having gone back to WHO before '+', after ',' and
\* after the terminator.
C27_Witness ==
    /\ pc = "parsed"
    /\ modeString = <<"g", "-", "w", "+", "x", ",", "a", "u", "=", "r">>
    /\ ps.i = Len(modeString) + 1
    /\ ps.state = "WHO"
    /\ Len(actions) = 3

=============================================================================
